---------------------------- MODULE Spec2Model ----------------------------
(***************************************************************************)
(* Black-Scholes pricer and its two reporters                              *)
(* (src/BlackScholes/black_scholes.py).                                    *)
(*                                                                         *)
(* Floats are modelled as decimal fixed-point numbers: the integer n       *)
(* stands for the real n / SC, so 10.45067 is 1045067.  Every arithmetic   *)
(* operation truncates its result to that grid, as a float operation       *)
(* rounds to the nearest double.  NaN and None are two values outside the  *)
(* range of the numbers used.                                              *)
(***************************************************************************)
EXTENDS Integers, Sequences, FiniteSets, TLC

(***************************************************************************)
(* Float arithmetic                                                        *)
(***************************************************************************)
\* resolution of the fixed-point grid: five decimal places
SC == 10 ^ 5

\* float('nan'): compares FALSE with everything, propagates through + - * /
NaN == -(2 ^ 30)

\* Python's None (an absent implied volatility)
None == -(2 ^ 30) - 1

IsNaN(x) == x = NaN

Abs(x) == IF x < 0 THEN -x ELSE x

Sgn(x) == IF x < 0 THEN -1 ELSE 1

\* a + b on floats
FAdd(a, b) == IF IsNaN(a) \/ IsNaN(b) THEN NaN ELSE a + b

\* -a on floats
FNeg(a) == IF IsNaN(a) THEN NaN ELSE -a

\* a - b on floats
FSub(a, b) == IF IsNaN(a) \/ IsNaN(b) THEN NaN ELSE a - b

\* a <= b on floats: FALSE when either side is NaN
FLe(a, b) == ~IsNaN(a) /\ ~IsNaN(b) /\ a <= b

\* a * b on floats (b is split in two so that no product leaves 32 bits)
FMul(a, b) ==
    IF IsNaN(a) \/ IsNaN(b) THEN NaN
    ELSE Sgn(a) * Sgn(b) *
         LET hi == Abs(a) * (Abs(b) \div 1000)
             lo == Abs(a) * (Abs(b) % 1000)
         IN  hi \div 100 + ((hi % 100) * 1000 + lo) \div SC

\* the n next decimal digits of rem / b, by long division
RECURSIVE LongDiv(_, _, _)
LongDiv(rem, b, n) ==
    IF n = 0 THEN 0
    ELSE ((rem * 10) \div b) * (10 ^ (n - 1)) + LongDiv((rem * 10) % b, b, n - 1)

\* a / b on floats, b # 0 (the callers raise ZeroDivisionError before)
FDiv(a, b) ==
    IF IsNaN(a) \/ IsNaN(b) THEN NaN
    ELSE Sgn(a) * Sgn(b) *
         ( (Abs(a) \div Abs(b)) * SC + LongDiv(Abs(a) % Abs(b), Abs(b), 5) )

\* y * y <= x on the grid, exactly (y is split in two as in FMul)
SqLe(y, x) ==
    LET yh    == y \div 1000
        yl    == y % 1000
        cross == 2 * yh * yl * 1000 + yl * yl
        q     == yh * yh * 10 + cross \div SC
    IN  q < x \/ (q = x /\ cross % SC = 0)

\* bisection for the square root: lo*lo <= x < hi*hi
RECURSIVE SqrtIter(_, _, _)
SqrtIter(x, lo, hi) ==
    IF hi - lo <= 1 THEN lo
    ELSE LET mid == (lo + hi) \div 2
         IN  IF SqLe(mid, x) THEN SqrtIter(x, mid, hi)
                             ELSE SqrtIter(x, lo, mid)

\* math.sqrt(x) for x >= 0 (math.sqrt raises ValueError below 0)
Sqrt(x) == IF IsNaN(x) THEN NaN ELSE SqrtIter(x, 0, x + SC)

\* math.log(x) for x > 0 (math.log raises ValueError at and below 0):
\* halve or double x into [0.75, 1.5], then 2*atanh((x-1)/(x+1)) by its series
RECURSIVE Log(_)
Log(x) ==
    IF IsNaN(x) THEN NaN
    ELSE IF x > (3 * SC) \div 2 THEN Log(x \div 2) + 69315
    ELSE IF x < (3 * SC) \div 4 THEN Log(2 * x) - 69315
    ELSE LET z  == FDiv(x - SC, x + SC)
             z2 == FMul(z, z)
             s  == SC + FMul(z2, SC \div 3
                       + FMul(z2, SC \div 5
                       + FMul(z2, SC \div 7
                       + FMul(z2, SC \div 9))))
         IN  2 * FMul(z, s)

\* math.exp(x): halve x into [-0.5, 0.5] and square, Taylor series inside
RECURSIVE Exp(_)
Exp(x) ==
    IF IsNaN(x) THEN NaN
    ELSE IF Abs(x) > SC \div 2
    THEN LET h == Exp(Sgn(x) * (Abs(x) \div 2)) IN FMul(h, h)
    ELSE SC + FMul(x, SC + FMul(x \div 2, SC + FMul(x \div 3,
              SC + FMul(x \div 4, SC + FMul(x \div 5, SC + FMul(x \div 6,
              SC + x \div 7))))))

\* scipy.stats.norm.cdf(x): the standard normal distribution function
\* (Abramowitz-Stegun 26.2.17 above 0, 1 - cdf(-x) below 0, 1 from 6 sigma on)
RECURSIVE norm_cdf(_)
norm_cdf(x) ==
    IF IsNaN(x) THEN NaN
    ELSE IF x < 0 THEN SC - norm_cdf(-x)
    ELSE IF x >= 6 * SC THEN SC
    ELSE LET t    == FDiv(SC, SC + FMul(23164, x))
             poly == FMul(t, 31938 + FMul(t, -35656 + FMul(t, 178148
                         + FMul(t, -182126 + FMul(t, 133027)))))
             pdf  == FMul(39894, Exp(-(FMul(x, x) \div 2)))
         IN  SC - FMul(pdf, poly)

(***************************************************************************)
(* black_scholes(S, K, T, r, vol)                                          *)
(***************************************************************************)
\* an exception leaving the function
Raise(e) == [kind |-> "raise", exc |-> e, c |-> NaN, p |-> NaN]

\* return c, p
Return(c, p) == [kind |-> "return", exc |-> "", c |-> c, p |-> p]

\* the price of the put as line 21 writes it: the product with norm.cdf(-d1)
\* applies to the whole difference
PutPrice(S, K, T, r, d1, d2) ==
    FMul(FSub(FMul(FMul(K, Exp(FMul(FNeg(r), T))), norm_cdf(FNeg(d2))), S),
         norm_cdf(FNeg(d1)))

\* the pricer.  Line 14 is evaluated left to right: S / K divides by zero when
\* K is 0, math.log raises below and at 0, math.sqrt raises below 0, and the
\* division raises when vol * sqrt(T) is 0 (the operands are Python floats:
\* the rows of the chain hold columns of several types, so iterrows() yields
\* their values as objects).  Nothing else is checked.
black_scholes(S, K, T, r, vol) ==
    IF K = 0 THEN Raise("ZeroDivisionError")
    ELSE IF FLe(FDiv(S, K), 0) THEN Raise("ValueError")
    ELSE IF ~IsNaN(T) /\ T < 0 THEN Raise("ValueError")
    ELSE IF FMul(vol, Sqrt(T)) = 0 THEN Raise("ZeroDivisionError")
    ELSE LET d1 == FDiv(FAdd(Log(FDiv(S, K)),
                             FMul(FAdd(r, FMul(SC \div 2, FMul(vol, vol))), T)),
                        FMul(vol, Sqrt(T)))
             d2 == FSub(d1, FMul(vol, Sqrt(T)))
             c  == FSub(FMul(S, norm_cdf(d1)),
                        FMul(FMul(K, Exp(FMul(FNeg(r), T))), norm_cdf(d2)))
             p  == PutPrice(S, K, T, r, d1, d2)
         IN  Return(c, p)

(***************************************************************************)
(* Time to expiry (lines 33 and 86)                                        *)
(***************************************************************************)
\* an expiry string 'YYYY-MM-DD': ten characters, the digits as numbers
DateString(y, m, d) ==
    << y \div 1000, (y \div 100) % 10, (y \div 10) % 10, y % 10, "-",
       m \div 10, m % 10, "-", d \div 10, d % 10 >>

\* datetime.strptime(expiry, "%Y-%m-%d"): midnight of the day the string names
strptime(str) ==
    [ year   |-> 1000 * str[1] + 100 * str[2] + 10 * str[3] + str[4],
      month  |-> 10 * str[6] + str[7],
      day    |-> 10 * str[9] + str[10],
      second |-> 0 ]

IsLeap(y) == y % 4 = 0 /\ (y % 100 # 0 \/ y % 400 = 0)

DaysBeforeMonth(y, m) ==
    << 0, 31, 59, 90, 120, 151, 181, 212, 243, 273, 304, 334 >>[m]
    + (IF m > 2 /\ IsLeap(y) THEN 1 ELSE 0)

\* datetime.toordinal: the days from 0001-01-01, that day being 1
ToOrdinal(dt) ==
    LET y == dt.year - 1
    IN  y * 365 + y \div 4 - y \div 100 + y \div 400
        + DaysBeforeMonth(dt.year, dt.month) + dt.day

SecondsPerDay == 86400

DaysPerYear == 365

\* (a - b).days: timedelta keeps 0 <= seconds < 86400, so days is the floor
TimedeltaDays(a, b) ==
    ( (ToOrdinal(a) - ToOrdinal(b)) * SecondsPerDay + a.second - b.second )
    \div SecondsPerDay

\* t = (datetime.strptime(expiry, "%Y-%m-%d") - datetime.now()).days / 365
TimeToExpiry(exp, nw) ==
    FDiv(TimedeltaDays(strptime(exp), nw) * SC, DaysPerYear * SC)

(***************************************************************************)
(* Rows, skip rules and display                                            *)
(***************************************************************************)
\* the skip rule without its np.isnan test
InvalidVol_NoNaNCheck(vol) == vol = None \/ (vol # None /\ FLe(vol, 0))

\* the skip rule without its vol <= 0 test
InvalidVol_NoSignCheck(vol) == vol = None \/ IsNaN(vol)

\* if vol is None or vol <= 0 or np.isnan(vol): continue
InvalidVol(vol) == vol = None \/ (vol # None /\ (FLe(vol, 0) \/ IsNaN(vol)))

\* mid = (call["bid"] + call["ask"]) / 2
Mid(call) == FDiv(FAdd(call.bid, call.ask), 2 * SC)

\* the mid-price test left out
InvalidMid_Never(mid) == FALSE

\* if np.isnan(mid): continue
InvalidMid(mid) == IsNaN(mid)

\* the difference taken the other way round
Difference_Reversed(mkt_call, model_call) == FSub(model_call, mkt_call)

\* "difference": float(mkt_call - model_call)
Difference(mkt_call, model_call) == FSub(mkt_call, model_call)

\* cutting the digits off instead of rounding
round_down(x, ndigits) ==
    IF IsNaN(x) THEN NaN ELSE (x \div (10 ^ (5 - ndigits))) * (10 ^ (5 - ndigits))

\* round(x, ndigits) of a float: to the nearest multiple of 10^-ndigits, a tie
\* to the even one (Python decides a tie on the double's exact value, which is
\* a tie only when the decimal is one in binary too); NaN stays NaN
round(x, ndigits) ==
    IF IsNaN(x) THEN NaN
    ELSE LET unit == 10 ^ (5 - ndigits)
             q    == x \div unit
             rem  == x % unit
         IN  IF 2 * rem > unit \/ (2 * rem = unit /\ q % 2 = 1)
             THEN (q + 1) * unit
             ELSE q * unit

DisplayDigits == 4

\* one line of black_scholes_table's table (lines 65-70)
TableLine(row) ==
    << row.strike,
       round(row.call_price, DisplayDigits),
       round(row.put_price, DisplayDigits),
       round(row.vol, DisplayDigits) >>

\* one line of blkschl_vs_market's table (lines 125-131)
VsLine(row) ==
    << row.strike,
       round(row.vol, DisplayDigits),
       round(row.model_price, DisplayDigits),
       round(row.market_price, DisplayDigits),
       round(row.difference, DisplayDigits) >>

(***************************************************************************)
(* The world a run starts in                                               *)
(***************************************************************************)
\* the longest option chain
MaxRows == 3

\* r = 0.045, the default of both reporters
DefaultRate == 4500

\* a row of option.calls
Row(strike, iv, bid, ask) ==
    [strike |-> strike, impliedVolatility |-> iv, bid |-> bid, ask |-> ask]

\* the rows a chain is made of: quoted rows, rows without a usable implied
\* volatility (NaN, None, 0, below 0) and a row without a bid
ChainRows ==
    { Row(1000000, 27344,  25000,  35003),
      Row( 833333, 50006, 200000, 220000),
      Row( 750000, 20000,    NaN, 500000),
      Row(1250000,   NaN,  40000,  60000),
      Row(1100000,     0,      0,      0),
      Row(1150000, -10000,  1000,   3000),
      Row( 900000,  None, 190000, 210000) }

RECURSIVE SeqsUpTo(_, _)
SeqsUpTo(set, n) ==
    IF n = 0 THEN { <<>> }
    ELSE LET shorter == SeqsUpTo(set, n - 1)
         IN  shorter \cup { Append(q, x) : q \in shorter, x \in set }

Chains == SeqsUpTo(ChainRows, MaxRows)

\* expiry strings the chain is asked for: today, tomorrow, and a later one
\* beyond the 29th of February
Expiries ==
    { DateString(2028, 1, 20), DateString(2028, 1, 21), DateString(2028, 3, 17) }

\* datetime.now(): midnight and 09:30 of 2028-01-20
Nows ==
    { [year |-> 2028, month |-> 1, day |-> 20, second |-> 0],
      [year |-> 2028, month |-> 1, day |-> 20, second |-> 34200] }

\* ticker.fast_info['last_price']
LastPrices == { 1000000 }

\* the arguments a direct call of black_scholes is given
PricerArgs ==
    [ S   : { -1000000, 0, 1000000, 1200000 },
      K   : { -1000000, 0, 1000000, 1250000 },
      T   : { -273, 0, 25000, 100000 },
      r   : { 0, DefaultRate, 5000 },
      vol : { -20000, 0, 20000, 50000 } ]

NoArgs == [S |-> 0, K |-> 0, T |-> 0, r |-> 0, vol |-> 0]

NoResult == [kind |-> "none", exc |-> "", c |-> NaN, p |-> NaN]

(***************************************************************************)
(* State                                                                   *)
(***************************************************************************)
VARIABLES
    fn,        \* the function that was called
    pc,        \* "start", "loop", "done" (returned) or "raised"
    args,      \* a direct call of black_scholes: its arguments
    result,    \* what the last call of black_scholes did
    invoked,   \* the arguments of every call of black_scholes so far
    expiry,    \* the reporters' expiry string
    r,         \* the reporters' risk-free rate
    now,       \* what datetime.now() returns
    calls,     \* option.calls, the chain
    S,         \* the last price
    t,         \* time to expiry in years
    idx,       \* the row iterrows() yields next
    prices,    \* the list of stored rows
    table      \* the lines handed to tabulate

vars == << fn, pc, args, result, invoked, expiry, r, now, calls, S, t, idx,
           prices, table >>

world == << fn, args, expiry, r, now, calls, S >>

Reporters == { "black_scholes_table", "blkschl_vs_market" }

\* a reporter was called: the market data and the clock are what they are
Init ==
    /\ fn \in Reporters
    /\ pc = "start"
    /\ args = NoArgs
    /\ result = NoResult
    /\ invoked = << >>
    /\ expiry \in Expiries
    /\ r = DefaultRate
    /\ now \in Nows
    /\ calls \in Chains
    /\ S \in LastPrices
    /\ t = 0
    /\ idx = 0
    /\ prices = << >>
    /\ table = << >>

\* black_scholes was called directly
InitPricer ==
    /\ fn = "black_scholes"
    /\ pc = "start"
    /\ args \in PricerArgs
    /\ result = NoResult
    /\ invoked = << >>
    /\ expiry = DateString(2028, 1, 21)
    /\ r = DefaultRate
    /\ now \in { [year |-> 2028, month |-> 1, day |-> 20, second |-> 0] }
    /\ calls = << >>
    /\ S = 0
    /\ t = 0
    /\ idx = 0
    /\ prices = << >>
    /\ table = << >>

(***************************************************************************)
(* Operations                                                              *)
(***************************************************************************)
\* a direct call of black_scholes (lines 13-23)
PricerCall ==
    /\ fn = "black_scholes"
    /\ pc = "start"
    /\ result' = black_scholes(args.S, args.K, args.T, args.r, args.vol)
    /\ invoked' = Append(invoked, args)
    /\ pc' = IF result'.kind = "raise" THEN "raised" ELSE "done"
    /\ UNCHANGED << world, t, idx, prices, table >>

\* black_scholes_table, lines 28-39: the chain, t, the empty list, the price
TableBegin ==
    /\ fn = "black_scholes_table"
    /\ pc = "start"
    /\ t' = TimeToExpiry(expiry, now)
    /\ prices' = << >>
    /\ idx' = 1
    /\ pc' = "loop"
    /\ UNCHANGED << world, result, invoked, table >>

\* black_scholes_table, lines 42-59: one turn of the loop
TableRow ==
    /\ fn = "black_scholes_table"
    /\ pc = "loop"
    /\ idx <= Len(calls)
    /\ LET call == calls[idx]
           K    == call.strike
           vol  == call.impliedVolatility
           res  == black_scholes(S, K, t, r, vol)
       IN  IF InvalidVol(vol)
           THEN /\ idx' = idx + 1
                /\ UNCHANGED << pc, result, invoked, prices >>
           ELSE /\ invoked' = Append(invoked,
                        [S |-> S, K |-> K, T |-> t, r |-> r, vol |-> vol])
                /\ result' = res
                /\ IF res.kind = "raise"
                   THEN /\ pc' = "raised"
                        /\ UNCHANGED << idx, prices >>
                   ELSE /\ prices' = Append(prices,
                                [strike     |-> K,
                                 call_price |-> res.c,
                                 put_price  |-> res.p,
                                 vol        |-> vol])
                        /\ idx' = idx + 1
                        /\ UNCHANGED pc
    /\ UNCHANGED << world, t, table >>

\* black_scholes_table, lines 62-76: the table is built and printed
TableDisplay ==
    /\ fn = "black_scholes_table"
    /\ pc = "loop"
    /\ idx > Len(calls)
    /\ table' = [i \in 1..Len(prices) |-> TableLine(prices[i])]
    /\ pc' = "done"
    /\ UNCHANGED << world, result, invoked, t, idx, prices >>

\* blkschl_vs_market, lines 81-92
VsBegin ==
    /\ fn = "blkschl_vs_market"
    /\ pc = "start"
    /\ t' = TimeToExpiry(expiry, now)
    /\ prices' = << >>
    /\ idx' = 1
    /\ pc' = "loop"
    /\ UNCHANGED << world, result, invoked, table >>

\* blkschl_vs_market, lines 95-119: one turn of the loop
VsRow ==
    /\ fn = "blkschl_vs_market"
    /\ pc = "loop"
    /\ idx <= Len(calls)
    /\ LET call == calls[idx]
           K    == call.strike
           vol  == call.impliedVolatility
           res  == black_scholes(S, K, t, r, vol)
           model_call == res.c
           mid  == Mid(call)
           mkt_call == mid
       IN  IF InvalidVol(vol)
           THEN /\ idx' = idx + 1
                /\ UNCHANGED << pc, result, invoked, prices >>
           ELSE /\ invoked' = Append(invoked,
                        [S |-> S, K |-> K, T |-> t, r |-> r, vol |-> vol])
                /\ result' = res
                /\ IF res.kind = "raise"
                   THEN /\ pc' = "raised"
                        /\ UNCHANGED << idx, prices >>
                   ELSE /\ prices' =
                             IF InvalidMid(mid) THEN prices
                             ELSE Append(prices,
                                [strike       |-> K,
                                 model_price  |-> model_call,
                                 market_price |-> mkt_call,
                                 difference   |-> Difference(mkt_call, model_call),
                                 vol          |-> vol])
                        /\ idx' = idx + 1
                        /\ UNCHANGED pc
    /\ UNCHANGED << world, t, table >>

\* blkschl_vs_market, lines 122-137
VsDisplay ==
    /\ fn = "blkschl_vs_market"
    /\ pc = "loop"
    /\ idx > Len(calls)
    /\ table' = [i \in 1..Len(prices) |-> VsLine(prices[i])]
    /\ pc' = "done"
    /\ UNCHANGED << world, result, invoked, t, idx, prices >>

Next ==
    \/ TableBegin
    \/ TableRow
    \/ TableDisplay
    \/ VsBegin
    \/ VsRow
    \/ VsDisplay

\* the runs of the two reporters
Spec == Init /\ [][Next]_vars

\* the direct calls of the pricer
SpecPricer == InitPricer /\ [][PricerCall]_vars

(***************************************************************************)
(* What the claims speak of, said without the code's own predicates        *)
(***************************************************************************)
\* an implied volatility that is present, not NaN and above 0
VolUsable(v) == v # None /\ v # NaN /\ v > 0

\* a row whose bid and ask are both numbers
QuoteUsable(row) == row.bid # NaN /\ row.ask # NaN

\* the rows a model table is to show, of a part of the chain
ModelRows(chain) ==
    SelectSeq(chain, LAMBDA row : VolUsable(row.impliedVolatility))

\* the rows a comparison table is to show, of a part of the chain
ComparisonRows(chain) ==
    SelectSeq(chain, LAMBDA row :
        VolUsable(row.impliedVolatility) /\ QuoteUsable(row))

\* the rows the loop has gone through
Processed == IF pc = "start" THEN << >> ELSE SubSeq(calls, 1, idx - 1)

\* the strike and volatility of each row of a sequence, in its order
Keys(rows) == [i \in 1..Len(rows) |-> << rows[i].strike, rows[i].vol >>]

ChainKeys(rows) ==
    [i \in 1..Len(rows) |-> << rows[i].strike, rows[i].impliedVolatility >>]

\* the arguments the pricer's contract allows
ValidArgs(a) == a.S > 0 /\ a.K > 0 /\ a.T > 0 /\ a.vol > 0

\* the grid's allowance for the rounding of one evaluation of the formula
ParityTol == SC \div 1000

DiscountedStrike(a) == FMul(a.K, Exp(FMul(-a.r, a.T)))

(***************************************************************************)
(* C1                                                                      *)
(***************************************************************************)
\* C1: put-call parity.  Whenever black_scholes returns for S > 0, K > 0,
\* T > 0 and vol > 0, call - put is S - K*exp(-r*T) within the tolerance, and
\* for S = K and r = 0 the call equals the put.
C1_PutCallParity ==
    (fn = "black_scholes" /\ pc = "done" /\ ValidArgs(args)) =>
        /\ Abs((result.c - result.p) - (args.S - DiscountedStrike(args)))
               <= ParityTol
        /\ (args.S = args.K /\ args.r = 0) =>
               Abs(result.c - result.p) <= ParityTol

(***************************************************************************)
(* C2                                                                      *)
(***************************************************************************)
\* C2: the closed form.  For every valid input the first result is
\* S*Phi(d1) - K*exp(-r*T)*Phi(d2) and the second is
\* K*exp(-r*T)*Phi(-d2) - S*Phi(-d1).
C2_ClosedForm ==
    (fn = "black_scholes" /\ pc = "done" /\ ValidArgs(args)) =>
        LET sigmaRootT == FMul(args.vol, Sqrt(args.T))
            d1 == FDiv(Log(FDiv(args.S, args.K))
                       + FMul(args.r + FMul(SC \div 2, FMul(args.vol, args.vol)),
                              args.T),
                       sigmaRootT)
            d2 == d1 - sigmaRootT
        IN  /\ result.c = FMul(args.S, norm_cdf(d1))
                          - FMul(DiscountedStrike(args), norm_cdf(d2))
            /\ result.p = FMul(DiscountedStrike(args), norm_cdf(-d2))
                          - FMul(args.S, norm_cdf(-d1))

(***************************************************************************)
(* C3                                                                      *)
(***************************************************************************)
\* C3: rejection.  A call with vol <= 0, T <= 0, S <= 0 or K <= 0 ends in a
\* rejection: it never returns a (call, put) pair.
C3_RejectsInvalidInput ==
    (fn = "black_scholes" /\ pc # "start" /\ ~ValidArgs(args)) =>
        /\ pc = "raised"
        /\ result.kind = "raise"

(***************************************************************************)
(* C4                                                                      *)
(***************************************************************************)
\* C4: the model table.  The rows black_scholes_table has stored are, at every
\* point of the loop, the rows gone through whose implied volatility is
\* present, above 0 and not NaN, one each and in the chain's order; the table
\* it prints has one line for each such row of the chain, in that order.
C4_ModelTableRows ==
    fn = "black_scholes_table" =>
        /\ Keys(prices) = ChainKeys(ModelRows(Processed))
        /\ pc = "done" =>
              [i \in 1..Len(table) |-> table[i][1]]
                  = [i \in 1..Len(ModelRows(calls)) |-> ModelRows(calls)[i].strike]

\* a chain of three rows, the second with a NaN volatility, printed as the
\* first and the third row
C4_Witness ==
    /\ fn = "black_scholes_table" /\ pc = "done"
    /\ Len(calls) = 3
    /\ IsNaN(calls[2].impliedVolatility)
    /\ VolUsable(calls[1].impliedVolatility)
    /\ VolUsable(calls[3].impliedVolatility)
    /\ calls[1].strike # calls[3].strike
    /\ Len(table) = 2
    /\ table[1][1] = calls[1].strike /\ table[2][1] = calls[3].strike

(***************************************************************************)
(* C5                                                                      *)
(***************************************************************************)
\* C5: the comparison table.  The rows blkschl_vs_market has stored are, at
\* every point of the loop, the rows gone through with a usable implied
\* volatility and with a bid and an ask that are numbers, in the chain's
\* order; a row with a NaN bid or ask is in no stored row and no printed line.
C5_ComparisonTableRows ==
    fn = "blkschl_vs_market" =>
        /\ Keys(prices) = ChainKeys(ComparisonRows(Processed))
        /\ \A i \in 1..Len(prices) : ~IsNaN(prices[i].market_price)
        /\ pc = "done" =>
              [i \in 1..Len(table) |-> table[i][1]]
                  = [i \in 1..Len(ComparisonRows(calls))
                        |-> ComparisonRows(calls)[i].strike]

\* a printed comparison table of a chain with a row whose bid is NaN and whose
\* volatility is usable, and a row that is shown
C5_Witness ==
    /\ fn = "blkschl_vs_market" /\ pc = "done"
    /\ \E i \in 1..Len(calls) :
          /\ IsNaN(calls[i].bid)
          /\ VolUsable(calls[i].impliedVolatility)
          /\ \E j \in 1..Len(calls) : j > i /\ QuoteUsable(calls[j])
                                      /\ VolUsable(calls[j].impliedVolatility)
    /\ Len(table) >= 1
    /\ Len(table) < Len(calls)

(***************************************************************************)
(* C6                                                                      *)
(***************************************************************************)
\* C6: the values of a comparison row.  In every row blkschl_vs_market stores,
\* the market price is (bid + ask) / 2 of its chain row, the model price is the
\* first result of black_scholes for (S, strike, t, r, implied volatility), and
\* the difference is the market price minus the model price.
C6_ComparisonValues ==
    fn = "blkschl_vs_market" =>
        \A i \in 1..Len(prices) :
            i <= Len(ComparisonRows(Processed)) =>
                LET row == ComparisonRows(Processed)[i]
                    bs  == black_scholes(S, row.strike, t, r,
                                         row.impliedVolatility)
                IN  /\ prices[i].market_price
                           = FDiv(row.bid + row.ask, 2 * SC)
                    /\ bs.kind = "return"
                    /\ prices[i].model_price = bs.c
                    /\ prices[i].difference
                           = prices[i].market_price - prices[i].model_price

\* a stored row whose market price is below the model price: the difference
\* is negative
C6_Witness ==
    /\ fn = "blkschl_vs_market"
    /\ \E i \in 1..Len(prices) :
          /\ prices[i].market_price < prices[i].model_price
          /\ prices[i].difference < 0

(***************************************************************************)
(* C7                                                                      *)
(***************************************************************************)
\* C7: time to expiry.  t is the number of days from the current date to the
\* expiry date, divided by 365, whatever the time of day of now.
C7_WholeDaysBetweenDates ==
    (fn \in Reporters /\ pc # "start") =>
        t = FDiv((ToOrdinal(strptime(expiry)) - ToOrdinal(now)) * SC,
                 DaysPerYear * SC)

(***************************************************************************)
(* C8                                                                      *)
(***************************************************************************)
\* C8: silent skip.  With a time to expiry above 0 (the last price and the
\* strikes are above 0 in every chain), no reporter raises, whatever rows
\* without a usable volatility or quote the chain holds and wherever; in the
\* loop it is at a row of the chain or at its end, where the table is printed,
\* and it prints as many lines as the chain has usable rows.
C8_SilentSkip ==
    (fn \in Reporters /\ pc # "start" /\ t > 0) =>
        /\ pc # "raised"
        /\ pc = "loop" => idx \in 1..(Len(calls) + 1)
        /\ (pc = "done" /\ fn = "black_scholes_table") =>
               Len(table) = Cardinality({ i \in 1..Len(calls) :
                   VolUsable(calls[i].impliedVolatility) })
        /\ (pc = "done" /\ fn = "blkschl_vs_market") =>
               Len(table) = Cardinality({ i \in 1..Len(calls) :
                   VolUsable(calls[i].impliedVolatility)
                   /\ QuoteUsable(calls[i]) })

\* a reporter that has printed a table of a chain that begins with a row
\* without volatility, holds a row with a volatility of 0, and ends with a
\* usable row
C8_Witness ==
    /\ fn \in Reporters /\ pc = "done" /\ t > 0
    /\ Len(calls) = 3
    /\ calls[1].impliedVolatility \in { None, NaN }
    /\ calls[2].impliedVolatility = 0
    /\ Len(table) = 1

(***************************************************************************)
(* C9                                                                      *)
(***************************************************************************)
\* y is x rounded to four decimal places: on that grid and nearest to x
IsRounded4(y, x) == y % 10 = 0 /\ 2 * Abs(y - x) <= 10

\* C9 as stated: every field of every printed line, the strike included, is
\* on the grid of four decimal places.
C9_EveryFieldRounded ==
    pc = "done" =>
        \A i \in 1..Len(table) : \A j \in 1..Len(table[i]) :
            table[i][j] % 10 = 0

\* C9 as amended: every printed field but the strike is the stored value
\* rounded to four decimal places, the strike is printed as stored, and the
\* stored rows are the full-precision ones: printing changes none of them, and
\* the stored difference is that of the unrounded prices.
C9_DisplayRounding ==
    pc = "done" =>
        /\ Len(table) = Len(prices)
        /\ \A i \in 1..Len(table) :
              /\ table[i][1] = prices[i].strike
              /\ fn = "black_scholes_table" =>
                    /\ IsRounded4(table[i][2], prices[i].call_price)
                    /\ IsRounded4(table[i][3], prices[i].put_price)
                    /\ IsRounded4(table[i][4], prices[i].vol)
              /\ fn = "blkschl_vs_market" =>
                    /\ IsRounded4(table[i][2], prices[i].vol)
                    /\ IsRounded4(table[i][3], prices[i].model_price)
                    /\ IsRounded4(table[i][4], prices[i].market_price)
                    /\ IsRounded4(table[i][5], prices[i].difference)
                    /\ prices[i].difference
                          = prices[i].market_price - prices[i].model_price

\* a printed comparison line whose stored volatility, market price and model
\* price all have a fifth decimal, and whose strike has one too and is
\* printed with it
C9_Witness ==
    /\ fn = "blkschl_vs_market" /\ pc = "done"
    /\ \E i \in 1..Len(table) :
          /\ prices[i].vol % 10 # 0
          /\ prices[i].model_price % 10 > 5
          /\ prices[i].difference % 10 # 0
          /\ table[i][1] % 10 # 0
          /\ table[i][3] # prices[i].model_price

(***************************************************************************)
(* C10                                                                     *)
(***************************************************************************)
\* C10: the callers' guard.  In every run of a reporter, every call of
\* black_scholes is given a time to expiry above 0.
C10_CallersGuardTime ==
    fn \in Reporters =>
        \A i \in 1..Len(invoked) : invoked[i].T > 0

=============================================================================
